---- MODULE Spec2Model ----
(***************************************************************************)
(* A model of calc_signals.py: the daily valuation/trend signal batch.     *)
(*                                                                         *)
(* Numbers.  A float is the rational [num, den] with den > 0; the missing  *)
(* number float("nan") is the record with den = 0.  A date is the integer  *)
(* YYYYMMDD, as the "%Y%m%d" strings of the code read.  A note is the      *)
(* sequence of its ";"-separated fragments.                                *)
(***************************************************************************)
EXTENDS Integers, Sequences, FiniteSets, TLC

VARIABLES
    now_date, now_hour, ticks,      \* the exchange-local clock (datetime.now(tz=CN_TZ))
    f_pc, f_kind, f_fn, f_max_back, f_base, f_d, f_last_err,
    f_df, f_ed, f_exc, f_calls,     \* one activation of fetch_with_backoff
    f_slept,                        \* the time.sleep(sleep) calls it has made
    pc, token, codes, umap, ci,     \* main(): position, credential, config, loop index
    g_note,                         \* get_ma_and_vol's note while the fund fetch runs
    price, ma200, vnow, vma20, note1, trend,   \* main()'s locals for the current symbol
    rows, written, exit_status,     \* the rows built, the CSV written, sys.exit's status
    sym_pulls,                      \* provider calls made for the current symbol
    caught,                         \* the <<symbol index, step>> whose exception main() caught
    t_in, t_out                     \* the argument and result of a function run alone

fvars == <<f_pc, f_kind, f_fn, f_max_back, f_base, f_d, f_last_err,
           f_df, f_ed, f_exc, f_calls, f_slept>>
clockvars == <<now_date, now_hour, ticks>>
featvars == <<price, ma200, vnow, vma20, note1, trend>>
mainvars == <<pc, token, codes, umap, ci, g_note, rows, written, exit_status, caught>>
testvars == <<t_in, t_out>>
vars == <<clockvars, fvars, mainvars, featvars, sym_pulls, testvars>>

(***************************************************************************)
(* Bounds of the model.                                                    *)
(***************************************************************************)
MaxBack == 3        \* fetch_with_backoff is explored for max_back in 0..MaxBack
MaxTicks == 1       \* hours the clock may advance during one run
MaxHist == 3        \* rows of a valuation history or a ranked series run alone

(***************************************************************************)
(* Program constants.                                                      *)
(***************************************************************************)
CutoffHour == 17            \* now_cn.hour < 17
DefaultMaxBack == 3         \* max_back=3 at every call site
LongWindow == 200           \* close.rolling(200)
ShortWindow == 120          \* close.rolling(120)
VolWindow == 20             \* vol.rolling(20)
TrimAbove == 70             \* percentile > 70
AddBelow == 30              \* percentile < 30

NaN == [num |-> 0, den |-> 0]
Num(x) == [num |-> x, den |-> 1]
Rat(a, b) == [num |-> a, den |-> b]
IsNaN(x) == x.den = 0                       \* math.isnan / pd.isna
Lt(a, b) == a.num * b.den < b.num * a.den   \* both present
Gt(a, b) == Lt(b, a)
Geq(a, b) == ~Lt(a, b)

(***************************************************************************)
(* Calendar: datetime.strptime / timedelta(days) / strftime("%Y%m%d").     *)
(***************************************************************************)
IsLeap(y) == (y % 4 = 0 /\ y % 100 # 0) \/ y % 400 = 0

DaysInMonth(y, m) ==
    IF m = 2 THEN (IF IsLeap(y) THEN 29 ELSE 28)
    ELSE IF m \in {4, 6, 9, 11} THEN 30 ELSE 31

PrevDay(dt) ==
    LET y == dt \div 10000
        m == (dt \div 100) % 100
        d == dt % 100
    IN  IF d > 1 THEN dt - 1
        ELSE IF m > 1 THEN y * 10000 + (m - 1) * 100 + DaysInMonth(y, m - 1)
        ELSE (y - 1) * 10000 + 1231

NextDay(dt) ==
    LET y == dt \div 10000
        m == (dt \div 100) % 100
        d == dt % 100
    IN  IF d < DaysInMonth(y, m) THEN dt + 1
        ELSE IF m < 12 THEN y * 10000 + (m + 1) * 100 + 1
        ELSE (y + 1) * 10000 + 101

RECURSIVE MinusDays(_, _)
MinusDays(dt, k) == IF k = 0 THEN dt ELSE MinusDays(PrevDay(dt), k - 1)

\* The cutoff hour itself still counted as before the cutoff: hour <= 17.
cn_end_date_AtCutoff(date, hour) == IF hour <= CutoffHour THEN PrevDay(date) ELSE date

\* cn_end_date(): yesterday before the cutoff hour, today from it on.
cn_end_date(date, hour) == IF hour < CutoffHour THEN PrevDay(date) ELSE date

\* A loop that starts one day too early: range(1, max_back + 2).
CandidateDate_OffByOne(base, d) == MinusDays(base, d + 1)

\* ed = (base - timedelta(days=d)).strftime("%Y%m%d")
CandidateDate(base, d) == MinusDays(base, d)

(***************************************************************************)
(* decide_action(percentile, trend)                                        *)
(***************************************************************************)
\* The labels, with the en dash and the <= sign of the source in ASCII.
HoldNoTrade == "Hold - no trade"
HoldWait == "Hold - wait for trend"
Trim == "Trim (<=5%)"
Add == "Add (<=5%)"

\* The missing-percentile test left out: the label follows the trend alone.
decide_action_NoMissingTest(percentile, tr) ==
    IF ~IsNaN(percentile) /\ Gt(percentile, Num(TrimAbove)) THEN Trim
    ELSE IF IsNaN(percentile) \/ Lt(percentile, Num(AddBelow))
    THEN (IF tr = "above" THEN Add ELSE HoldWait)
    ELSE HoldNoTrade

\* The boundaries taken into the outer buckets: >= 70 and <= 30.
decide_action_Inclusive(percentile, tr) ==
    IF IsNaN(percentile) THEN HoldNoTrade
    ELSE IF Geq(percentile, Num(TrimAbove)) THEN Trim
    ELSE IF Geq(Num(AddBelow), percentile) THEN (IF tr = "above" THEN Add ELSE HoldWait)
    ELSE HoldNoTrade

decide_action(percentile, tr) ==
    IF IsNaN(percentile) THEN HoldNoTrade
    ELSE IF Gt(percentile, Num(TrimAbove)) THEN Trim
    ELSE IF Lt(percentile, Num(AddBelow)) THEN (IF tr = "above" THEN Add ELSE HoldWait)
    ELSE HoldNoTrade

(***************************************************************************)
(* Data frames.  A price frame (pro.daily, pro.fund_daily) is described by *)
(* its number of rows n, the columns it has, whether the provider sent it  *)
(* newest-first (desc), the shape of its close and volume values over the  *)
(* trading dates 1..n (oldest = 1) and the dates whose value is missing.   *)
(* A valuation frame (pro.daily_basic, pro.index_dailybasic) carries its pe *)
(* and pb values explicitly over its trading dates, oldest first, and desc *)
(* tells whether the provider sent the rows newest-first.  The akshare     *)
(* table is a valuation frame whose values are in the order of its rows.   *)
(* None and an empty frame are the frame with n = 0: the code never tells  *)
(* them apart (df is None or df.empty).                                    *)
(***************************************************************************)
PriceFrame(n, shape, holes, vshape, vholes, cols, desc) ==
    [n |-> n, shape |-> shape, holes |-> holes, vshape |-> vshape,
     vholes |-> vholes, cols |-> cols, desc |-> desc]

ValFrame(pe, pb, cols) ==
    [n |-> Len(pe), pe |-> pe, pb |-> pb, cols |-> cols, desc |-> FALSE]
\* The same history, sent newest-first.
NewestFirst(df) == [df EXCEPT !.desc = TRUE]

NoFrame == [n |-> 0]
IsEmpty(df) == df.n = 0                     \* df is None or df.empty

Frag(k, d, e) == [k |-> k, d |-> d, e |-> e]    \* one fragment of a note
HasFrag(note, k) == \E i \in 1..Len(note) : note[i].k = k

\* The value on trading date k, in hundredths for a close: rising, falling,
\* level, or level with one higher value 150 dates before the last.
ShapeAt(shape, n, k) ==
    IF shape = "up" THEN k
    ELSE IF shape = "down" THEN n + 1 - k
    ELSE IF shape = "bump" /\ k = n - 150 THEN 51
    ELSE 50

\* The value of a column in row i of the frame, in the frame's row order.
CloseCell(df, i) ==
    LET k == IF df.desc THEN df.n + 1 - i ELSE i
    IN  IF k \in df.holes THEN NaN ELSE Rat(ShapeAt(df.shape, df.n, k), 100)

VolCell(df, i) ==
    LET k == IF df.desc THEN df.n + 1 - i ELSE i
        v == ShapeAt(df.vshape, df.n, k)
    IN  IF k \in df.vholes THEN NaN
        ELSE IF "vol" \in df.cols THEN Num(v) ELSE Num(10 * v)

\* The frame left in the order the provider sent it.
sort_values_Missing(df) == df

\* df.sort_values("trade_date")
sort_values(df) == [df EXCEPT !.desc = FALSE]

\* pd.to_numeric(df["close"], errors="coerce")
CloseSeries(df) == [i \in 1..df.n |-> CloseCell(df, i)]
\* df["vol"] if the frame has it, else df.get("amount")
VolSeries(df) == [i \in 1..df.n |-> VolCell(df, i)]

Reverse(s) == [i \in 1..Len(s) |-> s[Len(s) + 1 - i]]
\* pd.to_numeric(df["pe_ttm"], errors="coerce"), pd.to_numeric(df["pb"], ...):
\* the column in the frame's row order.
PeSeries(df) == IF df.desc THEN Reverse(df.pe) ELSE df.pe
PbSeries(df) == IF df.desc THEN Reverse(df.pb) ELSE df.pb

dropna(s) == SelectSeq(s, LAMBDA x : ~IsNaN(x))

\* The sum of the numerators of s[lo..hi], all present and over one
\* denominator, by halves.
RECURSIVE SumRange(_, _, _)
SumRange(s, lo, hi) ==
    IF lo > hi THEN 0
    ELSE IF lo = hi THEN s[lo].num
    ELSE LET mid == (lo + hi) \div 2
         IN  SumRange(s, lo, mid) + SumRange(s, mid + 1, hi)

\* s.rolling(w).mean().iloc[-1]: the mean of the last w rows, missing when
\* there are fewer than w rows or one of them is missing (min_periods = w).
RollingMeanLast(s, w) ==
    IF Len(s) < w \/ \E i \in (Len(s) - w + 1)..Len(s) : IsNaN(s[i]) THEN NaN
    ELSE Rat(SumRange(s, Len(s) - w + 1, Len(s)), s[Len(s)].den * w)

\* price = close.dropna().iloc[-1] if close.dropna().size else nan
LastValid(s) == IF Len(dropna(s)) > 0 THEN dropna(s)[Len(dropna(s))] ELSE NaN

\* ma200 and the use_ma120 mark (lines 65-68): the row count len(close)
\* chooses the window.
LongMA(close) ==
    LET m200 == IF Len(close) >= LongWindow
                THEN RollingMeanLast(close, LongWindow) ELSE NaN
        fallback == IsNaN(m200) /\ Len(close) >= ShortWindow
    IN  [ma |-> IF fallback THEN RollingMeanLast(close, ShortWindow) ELSE m200,
         fallback |-> fallback]

Raised(e) == [raised |-> TRUE, err |-> e]

\* get_ma_and_vol, lines 59-72, on a non-empty frame.  A frame without
\* "close" raises KeyError at df["close"]; one with neither "vol" nor
\* "amount" makes vol the scalar pd.to_numeric(None) = nan, and len(vol)
\* raises TypeError.
Features(df0, note) ==
    LET df == sort_values(df0)
    IN  IF "close" \notin df.cols THEN Raised("KeyError")
        ELSE IF "vol" \notin df.cols /\ "amount" \notin df.cols THEN Raised("TypeError")
        ELSE
          LET close == CloseSeries(df)
              vol == VolSeries(df)
              lm == LongMA(close)
          IN  [raised |-> FALSE,
               price |-> LastValid(close),
               ma200 |-> lm.ma,
               vnow |-> IF Len(vol) > 0 THEN vol[Len(vol)] ELSE NaN,
               vma20 |-> IF Len(vol) >= VolWindow
                         THEN RollingMeanLast(vol, VolWindow) ELSE NaN,
               note |-> IF lm.fallback THEN Append(note, Frag("use_ma120", 0, ""))
                        ELSE note]

\* A strict comparison: price > ma200.
Trend_Strict(p, ma) ==
    IF ~IsNaN(ma) /\ ~IsNaN(p) /\ Gt(p, ma) THEN "above" ELSE "below"

\* main, lines 147-149.  isinstance(x, float) holds of every value
\* get_ma_and_vol returns (numpy.float64 is a float), nan included.
Trend(p, ma) ==
    IF ~IsNaN(ma) /\ ~IsNaN(p) /\ Geq(p, ma) THEN "above" ELSE "below"

(***************************************************************************)
(* pct_rank and the valuation resolvers' computations.                     *)
(***************************************************************************)
\* round(x) of a non-negative rational a/b to an integer, ties to even.
RoundHalfEven(a, b) ==
    LET q == a \div b
        r == a % b
    IN  IF 2 * r < b THEN q
        ELSE IF 2 * r > b THEN q + 1
        ELSE IF q % 2 = 0 THEN q ELSE q + 1

\* round(x, digits) for digits = 1 (scale 10) and 4 (scale 10000)
Round(x, scale) == Rat(RoundHalfEven(x.num * scale, x.den), scale)

\* Entries equal to the value counted too: s.le(value).
CountLt_Inclusive(s, value) == Cardinality({i \in 1..Len(s) : ~Lt(value, s[i])})

\* s.lt(value).sum()
CountLt(s, value) == Cardinality({i \in 1..Len(s) : Lt(s[i], value)})

pct_rank(series, value) ==
    LET s == dropna(series)
    IN  IF Len(s) = 0 \/ IsNaN(value) THEN NaN
        ELSE Round(Rat(100 * CountLt(s, value), Len(s)), 10)

notna_any(s) == \E i \in 1..Len(s) : ~IsNaN(s[i])

Valuation(latest, name, pct, note) ==
    [raised |-> FALSE, latest_metric |-> latest, metric_name |-> name,
     percentile |-> pct, note |-> note]

\* stock_percentile, lines 79-90, on the fetch's result.
StockValuation(df0, used_end) ==
    IF IsEmpty(df0)
    THEN Valuation(NaN, "na", NaN,
                   <<Frag("end", used_end, ""), Frag("no_daily_basic", 0, "")>>)
    ELSE IF ~({"pe_ttm", "pb"} \subseteq df0.cols) THEN Raised("KeyError")
    ELSE
      LET df == sort_values(df0)
          pe == PeSeries(df)
          pb == PbSeries(df)
      IN  IF notna_any(pe)
          THEN Valuation(LastValid(pe), "pe_ttm", pct_rank(pe, LastValid(pe)),
                         <<Frag("end", used_end, "")>>)
          ELSE IF notna_any(pb)
          THEN Valuation(LastValid(pb), "pb", pct_rank(pb, LastValid(pb)),
                         <<Frag("end", used_end, "")>>)
          ELSE Valuation(NaN, "na", NaN,
                         <<Frag("end", used_end, ""), Frag("no_pe_pb", 0, "")>>)

\* index_percentile, lines 97-103: the primary provider's answer, or
\* found = FALSE when the code falls through to the secondary provider.
\* df["pe_ttm"] is read first; df["pb"] only when pe has no valid value.
IndexPrimary(df0, used_end) ==
    IF IsEmpty(df0) THEN [raised |-> FALSE, found |-> FALSE]
    ELSE
      LET df == sort_values(df0)
          pe == PeSeries(df)
          pb == PbSeries(df)
      IN  IF "pe_ttm" \notin df.cols THEN Raised("KeyError")
          ELSE IF notna_any(pe)
          THEN [raised |-> FALSE, found |-> TRUE,
                val |-> Valuation(LastValid(pe), "pe_ttm", pct_rank(pe, LastValid(pe)),
                                  <<Frag("end", used_end, "")>>)]
          ELSE IF "pb" \notin df.cols THEN Raised("KeyError")
          ELSE IF notna_any(pb)
          THEN [raised |-> FALSE, found |-> TRUE,
                val |-> Valuation(LastValid(pb), "pb", pct_rank(pb, LastValid(pb)),
                                  <<Frag("end", used_end, "")>>)]
          ELSE [raised |-> FALSE, found |-> FALSE]

\* The identifier passed on with its market suffix.
StripSuffix_Keep(index_code) == index_code

\* sym = index_code.split('.')[0]: the identifier up to its first dot, for
\* the identifiers of the model's configurations.
StripSuffix(index_code) ==
    CASE index_code = "000300.SH" -> "000300"
      [] index_code = "H30533.CSI" -> "H30533"
      [] OTHER -> index_code

\* index_percentile, lines 105-122: the secondary provider.  out is what
\* import akshare / ak.stock_zh_index_value_csindex did: raise an error,
\* or return a table (empty, n = 0, for None or no rows) whose cols holds
\* "pe" / "pb" when a column lower-cases to that name.  The table is
\* read in the order of its rows: the code does not sort it.
IndexSecondary(index_code, out) ==
    IF out.raised
    THEN Valuation(NaN, "na", NaN,
                   <<Frag("no_index_basic", 0, index_code),
                     Frag("ak_err", 0, out.err)>>)
    ELSE IF ~IsEmpty(out.df) /\ "pe" \in out.df.cols /\ Len(dropna(PeSeries(out.df))) > 0
    THEN Valuation(LastValid(PeSeries(out.df)), "pe_ttm",
                   pct_rank(dropna(PeSeries(out.df)), LastValid(PeSeries(out.df))),
                   <<Frag("akshare_csindex", 0, StripSuffix(index_code))>>)
    ELSE IF ~IsEmpty(out.df) /\ "pb" \in out.df.cols /\ Len(dropna(PbSeries(out.df))) > 0
    THEN Valuation(LastValid(PbSeries(out.df)), "pb",
                   pct_rank(dropna(PbSeries(out.df)), LastValid(PbSeries(out.df))),
                   <<Frag("akshare_csindex", 0, StripSuffix(index_code))>>)
    ELSE Valuation(NaN, "na", NaN,
                   <<Frag("no_index_basic", 0, index_code),
                     Frag("ak_empty", 0, "")>>)

\* stock_percentile, lines 78-90; fr is what fetch_with_backoff returned or
\* raised.
stock_percentile(fr) ==
    IF fr.pc = "raise" THEN Raised(fr.exc) ELSE StockValuation(fr.df, fr.ed)

\* index_percentile, lines 96-122; out is what the secondary provider does
\* if it is called.
index_percentile(fr, index_code, out) ==
    IF fr.pc = "raise" THEN Raised(fr.exc)
    ELSE LET p == IndexPrimary(fr.df, fr.ed)
         IN  IF p.raised THEN p
             ELSE IF p.found THEN p.val
             ELSE IndexSecondary(index_code, out)

(***************************************************************************)
(* fetch_with_backoff(fetch_fn, max_back, sleep).  fetch_fn is given by    *)
(* what it does on each of its invocations: f_fn[k] is the outcome of the  *)
(* k-th pull: raise an error, return nothing (None or an empty frame), or  *)
(* return a non-empty frame.                                               *)
(***************************************************************************)
NoErr == ""                                  \* last_err = None
Raises(e) == [out |-> "raise", err |-> e, df |-> NoFrame]
ReturnsEmpty == [out |-> "empty", err |-> NoErr, df |-> NoFrame]
Returns(df) == [out |-> "data", err |-> NoErr, df |-> df]

\* The emptiness test inverted: df is not None and df.empty.
PullSucceeded_Inverted(o) == o.out = "data" /\ IsEmpty(o.df)

\* line 33: df is not None and not df.empty
PullSucceeded(o) == o.out = "data" /\ ~IsEmpty(o.df)

\* time.sleep moved out of the except clause: a wait after every attempt
\* that did not return a frame.
SleepAfter_AnyFailure(o) == ~(o.out = "data" /\ ~IsEmpty(o.df))

\* lines 35-37: time.sleep(sleep) is in the except clause.
SleepAfter(o) == o.out = "raise"

\* Keeping the first error instead of the last.
NextLastErr_First(last_err, o) ==
    IF o.out = "raise" /\ last_err = NoErr THEN o.err ELSE last_err

\* lines 35-36: except Exception as e: last_err = e
NextLastErr(last_err, o) == IF o.out = "raise" THEN o.err ELSE last_err

\* Returning the last candidate tried, ed, instead of base.
ExhaustedDate_LastTried(base, max_back) == MinusDays(base, max_back)

\* line 40: the date returned with None
ExhaustedDate(base, max_back) == base

\* The error dropped after the loop: nothing is returned with the start date.
AfterLoop_SwallowError(last_err, base, max_back) ==
    [pc |-> "ret", exc |-> NoErr, df |-> NoFrame, ed |-> base]

\* raise last_err without the test: raising None is a TypeError.
AfterLoop_AlwaysRaise(last_err, base, max_back) ==
    [pc |-> "raise", exc |-> IF last_err # NoErr THEN last_err ELSE "TypeError",
     df |-> NoFrame, ed |-> 0]

\* lines 38-40: after the loop
AfterLoop(last_err, base, max_back) ==
    IF last_err # NoErr
    THEN [pc |-> "raise", exc |-> last_err, df |-> NoFrame, ed |-> 0]
    ELSE [pc |-> "ret", exc |-> NoErr, df |-> NoFrame,
          ed |-> ExhaustedDate(base, max_back)]

\* lines 27-28: the entry of fetch_with_backoff, reading the clock.
FetchCall(kind, fn, max_back) ==
    /\ f_pc' = "loop"
    /\ f_kind' = kind
    /\ f_fn' = fn
    /\ f_max_back' = max_back
    /\ f_base' = cn_end_date(now_date, now_hour)
    /\ f_d' = 0
    /\ f_last_err' = NoErr
    /\ f_df' = NoFrame
    /\ f_ed' = 0
    /\ f_exc' = NoErr
    /\ f_calls' = <<>>
    /\ f_slept' = 0

FetchIdle ==
    /\ f_pc' = "idle"
    /\ f_kind' = "none"
    /\ f_fn' = <<>>
    /\ f_max_back' = 0
    /\ f_base' = 0
    /\ f_d' = 0
    /\ f_last_err' = NoErr
    /\ f_df' = NoFrame
    /\ f_ed' = 0
    /\ f_exc' = NoErr
    /\ f_calls' = <<>>
    /\ f_slept' = 0

\* line 29: the loop has a candidate left.
CanPull == f_pc = "loop" /\ f_d <= f_max_back

\* One iteration of the loop, lines 29-37, and lines 38-40 after the last.
FetchPull ==
    /\ CanPull
    /\ LET ed == CandidateDate(f_base, f_d)
           o == f_fn[f_d + 1]
           le == NextLastErr(f_last_err, o)
           end == AfterLoop(le, f_base, f_max_back)
       IN  /\ f_calls' = Append(f_calls, [ed |-> ed, res |-> o])
           /\ f_slept' = IF SleepAfter(o) THEN f_slept + 1 ELSE f_slept
           /\ sym_pulls' = sym_pulls + 1
           /\ IF PullSucceeded(o)
              THEN /\ f_pc' = "ret"
                   /\ f_df' = o.df
                   /\ f_ed' = ed
                   /\ UNCHANGED <<f_d, f_last_err, f_exc>>
              ELSE /\ f_last_err' = le
                   /\ f_d' = f_d + 1
                   /\ IF f_d + 1 > f_max_back
                      THEN /\ f_pc' = end.pc
                           /\ f_exc' = end.exc
                           /\ f_df' = end.df
                           /\ f_ed' = end.ed
                      ELSE UNCHANGED <<f_pc, f_exc, f_df, f_ed>>
    /\ UNCHANGED <<f_kind, f_fn, f_max_back, f_base>>
    /\ UNCHANGED <<clockvars, mainvars, featvars, testvars>>

\* fetch_with_backoff has returned or raised.
FetchDone == f_pc \in {"ret", "raise"}

\* The exchange-local clock moves on by an hour.
Tick ==
    /\ ticks < MaxTicks
    /\ ticks' = ticks + 1
    /\ IF now_hour = 23
       THEN now_hour' = 0 /\ now_date' = NextDay(now_date)
       ELSE now_hour' = now_hour + 1 /\ UNCHANGED now_date
    /\ UNCHANGED <<fvars, mainvars, featvars, sym_pulls, testvars>>

(***************************************************************************)
(* Initial values shared by the specifications.                            *)
(***************************************************************************)
\* The clock readings a run may start at: just before the cutoff hour on a
\* day after a leap day, and the last hour of a year.
StartClocks == {<<20240301, 16>>, <<20231231, 23>>}

ClockInit ==
    /\ \E c \in StartClocks : now_date = c[1] /\ now_hour = c[2]
    /\ ticks = 0

\* main() is not running: a function is run alone.
MainAbsent ==
    /\ pc = "test"
    /\ token = "tok"
    /\ codes = <<>>
    /\ umap = <<>>
    /\ ci = 0
    /\ g_note = <<>>
    /\ rows = <<>>
    /\ written = FALSE
    /\ exit_status = 0
    /\ caught = {}
    /\ sym_pulls = 0
    /\ price = NaN /\ ma200 = NaN /\ vnow = NaN /\ vma20 = NaN
    /\ note1 = <<>> /\ trend = "below"

FetchAbsent ==
    /\ f_pc = "idle"
    /\ f_kind = "none"
    /\ f_fn = <<>>
    /\ f_max_back = 0
    /\ f_base = 0
    /\ f_d = 0
    /\ f_last_err = NoErr
    /\ f_df = NoFrame
    /\ f_ed = 0
    /\ f_exc = NoErr
    /\ f_calls = <<>>
    /\ f_slept = 0

\* The clock is not read.
ClockAbsent == now_date = 20240301 /\ now_hour = 16 /\ ticks = 0

(***************************************************************************)
(* SpecFetch: fetch_with_backoff run alone, for every max_back in          *)
(* 0..MaxBack and every pull function over TestOutcomes.                   *)
(***************************************************************************)
SmallFrameA == PriceFrame(1, "flat", {}, "flat", {}, {"close", "vol"}, FALSE)
SmallFrameB == PriceFrame(2, "up", {}, "flat", {}, {"close", "vol"}, TRUE)

TestOutcomes ==
    {Raises("E1"), Raises("E2"), ReturnsEmpty, Returns(SmallFrameA), Returns(SmallFrameB)}

InitFetch ==
    /\ ClockInit
    /\ MainAbsent
    /\ t_in = 0 /\ t_out = 0
    /\ f_pc = "loop"
    /\ f_kind = "daily"
    /\ f_max_back \in 0..MaxBack
    /\ f_fn \in [1..(f_max_back + 1) -> TestOutcomes]
    /\ f_base = cn_end_date(now_date, now_hour)
    /\ f_d = 0
    /\ f_last_err = NoErr
    /\ f_df = NoFrame
    /\ f_ed = 0
    /\ f_exc = NoErr
    /\ f_calls = <<>>
    /\ f_slept = 0

NextFetch == FetchPull \/ Tick

SpecFetch == InitFetch /\ [][NextFetch]_vars

(***************************************************************************)
(* Claims about fetch_with_backoff, under SpecFetch.                       *)
(***************************************************************************)
NCalls == Len(f_calls)
AllEmptyFn == \A k \in DOMAIN f_fn : f_fn[k].out = "empty"
\* The first invocation of the pull function that returns a frame, or 0.
FirstData ==
    IF \E k \in DOMAIN f_fn : f_fn[k].out = "data"
    THEN CHOOSE k \in DOMAIN f_fn :
            f_fn[k].out = "data" /\ \A j \in 1..(k - 1) : f_fn[j].out # "data"
    ELSE 0
\* The invocation that raised last, or 0.
LastRaise ==
    IF \E k \in DOMAIN f_fn : f_fn[k].out = "raise"
    THEN CHOOSE k \in DOMAIN f_fn :
            f_fn[k].out = "raise" /\ \A j \in (k + 1)..Len(f_fn) : f_fn[j].out # "raise"
    ELSE 0

\* C2: the pulls are made on base, base - 1 day, ... in that order, at most
\* max_back + 1 of them; only the last pull made can have returned a frame,
\* and when it has, the fetcher has returned that frame with that pull's date.
C2_CandidateOrderFirstSuccess ==
    /\ NCalls <= f_max_back + 1
    /\ \A k \in 1..NCalls :
          /\ f_calls[k].ed = MinusDays(f_base, k - 1)
          /\ f_calls[k].res = f_fn[k]
          /\ k < NCalls => f_calls[k].res.out # "data"
    /\ (NCalls > 0 /\ f_calls[NCalls].res.out = "data") =>
          /\ f_pc = "ret"
          /\ f_df = f_calls[NCalls].res.df
          /\ f_ed = f_calls[NCalls].ed

\* C2 witness: two empty pulls, then a frame on the third candidate, which
\* lies across the leap day from the start date.
C2_Witness ==
    /\ f_pc = "ret" /\ NCalls = 3 /\ f_base = 20240229
    /\ f_df = SmallFrameB /\ f_ed = 20240227

\* C3: once every candidate has been tried without a frame and some pull
\* raised, the fetcher has raised the error of the last pull that raised.
C3_LastErrorPropagates ==
    (FetchDone /\ FirstData = 0 /\ LastRaise # 0) =>
        /\ f_pc = "raise"
        /\ f_exc = f_fn[LastRaise].err

\* C3 witness: E1, then E2, then two empty pulls: E2 is raised.
C3_Witness ==
    /\ f_pc = "raise" /\ f_max_back = 3 /\ f_exc = "E2"
    /\ f_fn = <<Raises("E1"), Raises("E2"), ReturnsEmpty, ReturnsEmpty>>

\* C4 (the claim as made): when every pull returned empty, the fetcher returns an
\* empty result with the date base - max_back days.
C4_Original ==
    (FetchDone /\ AllEmptyFn) =>
        /\ f_pc = "ret" /\ IsEmpty(f_df)
        /\ f_ed = MinusDays(f_base, f_max_back)

\* C4 as amended: when every pull returned empty, the fetcher returns an
\* empty result with the date it started from (the first candidate tried).
C4_EmptyPairedWithStartDate ==
    (FetchDone /\ AllEmptyFn) =>
        /\ f_pc = "ret" /\ IsEmpty(f_df)
        /\ f_ed = f_base

\* C4 witness: four empty pulls with max_back = 3.
C4_Witness ==
    /\ f_pc = "ret" /\ AllEmptyFn /\ f_max_back = 3 /\ NCalls = 4
    /\ f_ed = 20240229

\* C5: with a pull function that always returns empty the fetcher never
\* raises, and after max_back + 1 pulls it has returned normally, empty.
C5_AlwaysEmptyNeverRaises ==
    AllEmptyFn =>
        /\ f_pc # "raise" /\ f_exc = NoErr
        /\ NCalls = f_max_back + 1 => (f_pc = "ret" /\ IsEmpty(f_df))

\* C5 witness: max_back = 0, one empty pull, a normal return.
C5_Witness ==
    /\ AllEmptyFn /\ f_max_back = 0 /\ NCalls = 1 /\ f_pc = "ret"

\* C6: when some candidate's pull returns a frame, errors and empty results
\* of the candidates before it are not propagated: the fetcher never raises,
\* never pulls past that candidate and returns its frame and its date.
C6_EarlierFailuresRecovered ==
    FirstData # 0 =>
        /\ f_pc # "raise"
        /\ NCalls <= FirstData
        /\ FetchDone =>
              /\ f_df = f_fn[FirstData].df
              /\ f_ed = MinusDays(f_base, FirstData - 1)

\* C6 witness: errors on the two most recent dates, a frame on the third.
C6_Witness ==
    /\ f_pc = "ret" /\ f_max_back = 3 /\ FirstData = 3
    /\ f_fn[1].out = "raise" /\ f_fn[2].out = "raise"
    /\ f_df = f_fn[3].df /\ f_ed = MinusDays(f_base, 2)

(***************************************************************************)
(* SpecDecide: decide_action run alone on every percentile pct_rank can    *)
(* return (missing, or a number of tenths from 0.0 to 100.0) and on both   *)
(* trends.                                                                 *)
(***************************************************************************)
Percentiles == {NaN} \cup {Rat(k, 10) : k \in 0..1000}

InitDecide ==
    /\ ClockAbsent /\ MainAbsent /\ FetchAbsent
    /\ t_in \in [percentile : Percentiles, trend : {"above", "below"}]
    /\ t_out = "none"

Decide ==
    /\ pc = "test" /\ t_out = "none"
    /\ t_out' = decide_action(t_in.percentile, t_in.trend)
    /\ UNCHANGED <<clockvars, fvars, mainvars, featvars, sym_pulls, t_in>>

SpecDecide == InitDecide /\ [][Decide]_vars

\* C1: decide_action answers every (percentile, trend) pair by the fixed
\* rule: missing -> hold; above 70 -> trim whatever the trend; below 30 ->
\* add when the trend is above, else wait; from 30 to 70, both ends
\* included, -> hold.
C1_DecisionRule ==
    t_out # "none" =>
        LET p == t_in.percentile
        IN  /\ t_out \in {HoldNoTrade, HoldWait, Trim, Add}
            /\ p.den = 0 => t_out = HoldNoTrade
            /\ (p.den # 0 /\ p.num > 70 * p.den) => t_out = Trim
            /\ (p.den # 0 /\ p.num < 30 * p.den /\ t_in.trend = "above") => t_out = Add
            /\ (p.den # 0 /\ p.num < 30 * p.den /\ t_in.trend = "below") => t_out = HoldWait
            /\ (p.den # 0 /\ p.num >= 30 * p.den /\ p.num <= 70 * p.den)
                  => t_out = HoldNoTrade

\* C1 witness: the boundary 30 with the trend above is a hold.
C1_Witness ==
    /\ t_in = [percentile |-> Rat(300, 10), trend |-> "above"]
    /\ t_out = HoldNoTrade

(***************************************************************************)
(* main(): the orchestrator.  One action per stretch of code between two   *)
(* calls of a provider.                                                    *)
(***************************************************************************)
\* Testing for the empty string only: token == "".
NoToken_EmptyOnly(tok) == tok = ""

\* line 136: not token (None and "" are both falsy)
NoToken(tok) == tok \in {"None", ""}

\* line 158: code in UNDERLYING_MAP and UNDERLYING_MAP[code]
IsMapped(map, code) == code \in DOMAIN map /\ map[code] # ""

\* An except branch that only writes the note: the locals keep the values
\* of the symbol before.
MainFeatures_Stale(r) ==
    IF r.raised
    THEN [price |-> price, ma200 |-> ma200, vnow |-> vnow, vma20 |-> vma20,
          trend |-> trend, note1 |-> <<Frag("ma_err", 0, r.err)>>]
    ELSE [price |-> r.price, ma200 |-> r.ma200, vnow |-> r.vnow, vma20 |-> r.vma20,
          trend |-> Trend(r.price, r.ma200), note1 |-> r.note]

\* lines 146-153: the feature step's results as main() keeps them; r is
\* what get_ma_and_vol returned or raised.
MainFeatures(r) ==
    IF r.raised
    THEN [price |-> NaN, ma200 |-> NaN, vnow |-> NaN, vma20 |-> NaN,
          trend |-> "below", note1 |-> <<Frag("ma_err", 0, r.err)>>]
    ELSE [price |-> r.price, ma200 |-> r.ma200, vnow |-> r.vnow, vma20 |-> r.vma20,
          trend |-> Trend(r.price, r.ma200), note1 |-> r.note]

\* Line 156 left out: after an exception the valuation locals keep the
\* values of the symbol before.
MainValuation_NoReset(v) ==
    IF v.raised
    THEN [metric_name |-> "na",
          latest_metric |-> IF Len(rows) > 0 THEN rows[Len(rows)].latest_metric ELSE NaN,
          percentile |-> IF Len(rows) > 0 THEN rows[Len(rows)].percentile ELSE NaN,
          note2 |-> <<Frag("val_err", 0, v.err)>>]
    ELSE [metric_name |-> v.metric_name, latest_metric |-> v.latest_metric,
          percentile |-> v.percentile, note2 |-> v.note]

\* lines 156-164: the valuation step's results as main() keeps them; v is
\* what stock_percentile / index_percentile returned or raised.
MainValuation(v) ==
    IF v.raised
    THEN [metric_name |-> "na", latest_metric |-> NaN, percentile |-> NaN,
          note2 |-> <<Frag("val_err", 0, v.err)>>]
    ELSE [metric_name |-> v.metric_name, latest_metric |-> v.latest_metric,
          percentile |-> v.percentile, note2 |-> v.note]

\* round(x, 4) if x is a number and not nan, else "" (the blank is NaN here)
RowNumber(x) == IF IsNaN(x) THEN NaN ELSE Round(x, 10000)

\* lines 166-181: the row of one symbol
MakeRow(code, m, p, ma, vn, vm, tr, n1) ==
    [code |-> code,
     metric_name |-> m.metric_name,
     latest_metric |-> RowNumber(m.latest_metric),
     percentile |-> m.percentile,
     price |-> RowNumber(p),
     ma200 |-> RowNumber(ma),
     trend |-> tr,
     vol_gt_vma20 |-> (~IsNaN(vn) /\ ~IsNaN(vm) /\ Gt(vn, vm)),
     action |-> decide_action(m.percentile, tr),
     updated_at |-> <<now_date, now_hour>>,
     note |-> n1 \o m.note2]

\* The pull functions of a run: what pro.daily, pro.fund_daily,
\* pro.daily_basic and pro.index_dailybasic may do on the four candidate
\* dates of one fetch.
UpFrame == PriceFrame(200, "up", {}, "up", {}, {"close", "vol"}, TRUE)
DownFrame == PriceFrame(150, "down", {}, "flat", {}, {"close", "vol"}, TRUE)
FlatFrame == PriceFrame(120, "flat", {}, "down", {}, {"close", "vol"}, FALSE)
ShortFrame == PriceFrame(119, "up", {}, "flat", {}, {"close", "vol"}, TRUE)
GapFrame == PriceFrame(200, "up", {200}, "flat", {200}, {"close", "vol"}, TRUE)
NoCloseFrame == PriceFrame(3, "up", {}, "flat", {}, {"vol"}, TRUE)
BumpFrame == PriceFrame(200, "bump", {}, "flat", {}, {"close", "vol"}, FALSE)
FundFrame == PriceFrame(200, "flat", {}, "up", {}, {"close", "amount"}, TRUE)
NoVolFrame == PriceFrame(19, "up", {}, "flat", {}, {"close"}, TRUE)
BlankFrame == PriceFrame(1, "flat", {1}, "flat", {}, {"close", "vol"}, FALSE)

Ns(s) == [i \in 1..Len(s) |-> IF s[i] < 0 THEN NaN ELSE Num(s[i])]
PeFrame == NewestFirst(ValFrame(Ns(<<1, 3, 2>>), Ns(<<1, 1, 1>>), {"pe_ttm", "pb"}))
PbFrame == NewestFirst(ValFrame(Ns(<<-1, -1, -1>>), Ns(<<3, 1, 2>>), {"pe_ttm", "pb"}))
LowFrame == ValFrame(Ns(<<5, 4, 3, 1>>), Ns(<<1, 1, 1, 1>>), {"pe_ttm", "pb"})
HighFrame == NewestFirst(ValFrame(Ns(<<1, 2, 9, -1>>), Ns(<<1, 1, 1, 1>>), {"pe_ttm", "pb"}))
NoneFrame == ValFrame(Ns(<<-1, -1>>), Ns(<<-1, -1>>), {"pe_ttm", "pb"})
NoPbFrame == ValFrame(Ns(<<-1, -1>>), Ns(<<-1, -1>>), {"pe_ttm"})

At1(df) == <<Returns(df), ReturnsEmpty, ReturnsEmpty, ReturnsEmpty>>
At3(df) == <<Raises("timeout"), ReturnsEmpty, Returns(df), ReturnsEmpty>>
AllEmpty == <<ReturnsEmpty, ReturnsEmpty, ReturnsEmpty, ReturnsEmpty>>
AllRaise == <<Raises("timeout"), Raises("timeout"), Raises("timeout"), Raises("limit")>>
RaiseThenEmpty == <<ReturnsEmpty, Raises("limit"), ReturnsEmpty, ReturnsEmpty>>

RunPulls(kind) ==
    CASE kind = "daily" ->
            {At1(UpFrame), At1(DownFrame), At1(FlatFrame), At1(GapFrame), At1(BumpFrame),
             At1(NoCloseFrame), At3(ShortFrame), AllEmpty, AllRaise, RaiseThenEmpty}
      [] kind = "fund_daily" ->
            {At1(FundFrame), At1(NoVolFrame), At3(BlankFrame), AllEmpty, AllRaise}
      [] kind = "daily_basic" ->
            {At1(PeFrame), At1(PbFrame), At1(LowFrame), At1(HighFrame), At1(NoneFrame),
             At1(NoPbFrame), At3(LowFrame), AllEmpty, AllRaise}
      [] kind = "index_dailybasic" ->
            {At1(PeFrame), At1(LowFrame), At1(NoneFrame), At1(NoPbFrame),
             At3(PbFrame), AllEmpty, RaiseThenEmpty}

\* What import akshare / ak.stock_zh_index_value_csindex may do.
AkOutcomes ==
    {[raised |-> TRUE, err |-> "ImportError", df |-> NoFrame],
     [raised |-> FALSE, err |-> NoErr, df |-> NoFrame],
     [raised |-> FALSE, err |-> NoErr,
      df |-> ValFrame(Ns(<<4, 6, 5>>), Ns(<<1, 1, 1>>), {"pe", "pb"})],
     [raised |-> FALSE, err |-> NoErr,
      df |-> ValFrame(Ns(<<-1, -1>>), Ns(<<2, 1>>), {"pe", "pb"})],
     [raised |-> FALSE, err |-> NoErr,
      df |-> ValFrame(Ns(<<4, 6>>), Ns(<<2, 1>>), {"date"})]}

Stock == "600000.SH"
Etf == "510300.SH"
\* config.py: STOCK_CODES and UNDERLYING_MAP
Configs ==
    {[codes |-> <<>>, umap |-> [c \in {Etf} |-> "000300.SH"]],
     [codes |-> <<Stock>>, umap |-> [c \in {Etf} |-> "000300.SH"]],
     [codes |-> <<Etf>>, umap |-> [c \in {Etf} |-> "000300.SH"]],
     [codes |-> <<Etf>>, umap |-> [c \in {Etf} |-> ""]],
     [codes |-> <<Stock, Etf>>, umap |-> [c \in {Etf} |-> "000300.SH"]],
     [codes |-> <<Etf, Stock>>, umap |-> [c \in {Etf} |-> "000300.SH"]]}

Tokens == {"None", "", "tok"}

Init ==
    /\ ClockInit
    /\ FetchAbsent
    /\ pc = "start"
    /\ token \in Tokens
    /\ \E cfg \in Configs : codes = cfg.codes /\ umap = cfg.umap
    /\ ci = 0
    /\ g_note = <<>>
    /\ rows = <<>>
    /\ written = FALSE
    /\ exit_status = 0
    /\ caught = {}
    /\ sym_pulls = 0
    /\ price = NaN /\ ma200 = NaN /\ vnow = NaN /\ vma20 = NaN
    /\ note1 = <<>> /\ trend = "below"
    /\ t_in = 0 /\ t_out = 0

\* line 146: get_ma_and_vol(pro, code) is entered for symbol k and makes its
\* first fetch.
BeginSymbol(k) ==
    /\ ci' = k
    /\ pc' = "feat_stock"
    /\ sym_pulls' = 0
    /\ g_note' = <<>>
    /\ \E fn \in RunPulls("daily") : FetchCall("daily", fn, DefaultMaxBack)
    /\ UNCHANGED written

\* lines 183-185: the CSV is written after the last symbol.
WriteOutput ==
    /\ pc' = "done"
    /\ written' = TRUE
    /\ FetchIdle
    /\ UNCHANGED <<ci, g_note, sym_pulls>>

\* lines 135-138: no credential, sys.exit(1).
MainExit ==
    /\ pc = "start" /\ NoToken(token)
    /\ pc' = "exited"
    /\ exit_status' = 1
    /\ UNCHANGED <<token, codes, umap, ci, g_note, rows, written, caught>>
    /\ UNCHANGED <<clockvars, fvars, featvars, sym_pulls, testvars>>

\* lines 139-146: the credential is there; the loop over STOCK_CODES starts.
MainBegin ==
    /\ pc = "start" /\ ~NoToken(token)
    /\ IF Len(codes) = 0 THEN WriteOutput ELSE BeginSymbol(1)
    /\ UNCHANGED <<token, codes, umap, rows, exit_status, caught>>
    /\ UNCHANGED <<clockvars, featvars, testvars>>

\* lines 147-162: main() takes the feature step's result r and enters the
\* valuation step, which makes its fetch.
EnterValuation(r) ==
    LET m == MainFeatures(r)
        kind == IF IsMapped(umap, codes[ci]) THEN "index_dailybasic" ELSE "daily_basic"
    IN  /\ price' = m.price /\ ma200' = m.ma200
        /\ vnow' = m.vnow /\ vma20' = m.vma20
        /\ trend' = m.trend /\ note1' = m.note1
        /\ caught' = IF r.raised THEN caught \cup {<<ci, "feat">>} ELSE caught
        /\ pc' = IF kind = "index_dailybasic" THEN "val_index" ELSE "val_stock"
        /\ g_note' = <<>>
        /\ \E fn \in RunPulls(kind) : FetchCall(kind, fn, DefaultMaxBack)

\* get_ma_and_vol, lines 46-59, after the stock fetch: an error propagates
\* to main(); an empty result starts the fund fetch; a frame is computed on.
StockFetched ==
    /\ pc = "feat_stock" /\ FetchDone
    /\ IF f_pc = "raise" THEN EnterValuation(Raised(f_exc))
       ELSE IF IsEmpty(f_df)
       THEN /\ g_note' = <<Frag("end", f_ed, "")>>
            /\ pc' = "feat_fund"
            /\ \E fn \in RunPulls("fund_daily") : FetchCall("fund_daily", fn, DefaultMaxBack)
            /\ UNCHANGED <<featvars, caught>>
       ELSE EnterValuation(Features(f_df, <<Frag("end", f_ed, "")>>))
    /\ UNCHANGED <<token, codes, umap, ci, rows, written, exit_status>>
    /\ UNCHANGED <<clockvars, sym_pulls, testvars>>

\* get_ma_and_vol, lines 53-72, after the fund fetch.
FundFetched ==
    /\ pc = "feat_fund" /\ FetchDone
    /\ IF f_pc = "raise" THEN EnterValuation(Raised(f_exc))
       ELSE IF IsEmpty(f_df)
       THEN EnterValuation([raised |-> FALSE, price |-> NaN, ma200 |-> NaN,
                            vnow |-> NaN, vma20 |-> NaN,
                            note |-> Append(g_note, Frag("no_daily_data", 0, ""))])
       ELSE EnterValuation(Features(f_df, <<Frag("fund_end", f_ed, "")>>))
    /\ UNCHANGED <<token, codes, umap, ci, rows, written, exit_status>>
    /\ UNCHANGED <<clockvars, sym_pulls, testvars>>

\* lines 163-181 and the loop's next round: the row of the current symbol is
\* appended from the valuation step's result v, and either the next symbol's
\* feature step starts or the output is written.
EmitRow(v) ==
    /\ rows' = Append(rows, MakeRow(codes[ci], MainValuation(v),
                                    price, ma200, vnow, vma20, trend, note1))
    /\ caught' = IF v.raised THEN caught \cup {<<ci, "val">>} ELSE caught
    /\ IF ci < Len(codes) THEN BeginSymbol(ci + 1) ELSE WriteOutput
    /\ UNCHANGED <<token, codes, umap, exit_status>>
    /\ UNCHANGED <<clockvars, featvars, testvars>>

\* stock_percentile, lines 78-90, after its fetch.
StockValued ==
    /\ pc = "val_stock" /\ FetchDone
    /\ EmitRow(stock_percentile([pc |-> f_pc, exc |-> f_exc, df |-> f_df, ed |-> f_ed]))

\* index_percentile, lines 96-104, after its fetch: the primary provider
\* answers, or the secondary provider is called next.
IndexFetched ==
    /\ pc = "val_index" /\ FetchDone
    /\ LET p == IF f_pc = "raise" THEN Raised(f_exc) ELSE IndexPrimary(f_df, f_ed)
       IN  IF p.raised THEN EmitRow(p)
           ELSE IF p.found THEN EmitRow(p.val)
           ELSE /\ pc' = "ak"
                /\ FetchIdle
                /\ UNCHANGED <<token, codes, umap, ci, g_note, rows, written,
                               exit_status, caught>>
                /\ UNCHANGED <<clockvars, featvars, sym_pulls, testvars>>

\* index_percentile, lines 105-122: the secondary provider is called.
SecondaryCalled ==
    /\ pc = "ak"
    /\ \E out \in AkOutcomes : EmitRow(IndexSecondary(umap[codes[ci]], out))

Next ==
    \/ MainExit
    \/ MainBegin
    \/ FetchPull
    \/ StockFetched
    \/ FundFetched
    \/ StockValued
    \/ IndexFetched
    \/ SecondaryCalled
    \/ Tick

Spec == Init /\ [][Next]_vars

(***************************************************************************)
(* Claims about main(), under Spec.                                        *)
(***************************************************************************)
\* The run is between its first and its last step with the guard of one of
\* the program's actions true: a pull to make, a fetch result to take, the
\* secondary provider to call.
Running == pc \in {"feat_stock", "feat_fund", "val_stock", "val_index", "ak"}
CanStep ==
    \/ CanPull /\ pc # "ak"
    \/ FetchDone /\ pc \in {"feat_stock", "feat_fund", "val_stock", "val_index"}
    \/ pc = "ak"

\* C7: whatever the providers and the computations do, the rows built are
\* those of the symbols processed so far, in configuration order; the run
\* never stops before the last symbol, and ends with one row per symbol; an
\* exception of the feature step (the valuation step) of symbol k leaves
\* row k with blank feature (valuation) fields, metric_name "na" for the
\* valuation, and the note of every row is non-empty and names the failure.
C7_OneRowPerSymbolFailuresIsolated ==
    /\ Len(rows) <= Len(codes)
    /\ \A k \in 1..Len(rows) :
          /\ rows[k].code = codes[k]
          /\ rows[k].note # <<>>
          /\ <<k, "feat">> \in caught =>
                /\ IsNaN(rows[k].price) /\ IsNaN(rows[k].ma200)
                /\ rows[k].trend = "below" /\ ~rows[k].vol_gt_vma20
                /\ HasFrag(rows[k].note, "ma_err")
          /\ <<k, "val">> \in caught =>
                /\ rows[k].metric_name = "na"
                /\ IsNaN(rows[k].latest_metric) /\ IsNaN(rows[k].percentile)
                /\ HasFrag(rows[k].note, "val_err")
    /\ Running => (ci \in 1..Len(codes) /\ Len(rows) = ci - 1 /\ CanStep)
    /\ pc = "done" => (Len(rows) = Len(codes) /\ written)
    /\ ~NoToken(token) => (pc # "exited" /\ exit_status = 0)

\* C7 witness: both steps of the first of two symbols failed, the second
\* symbol's row has a price and a metric, and the output is written.
C7_Witness ==
    /\ pc = "done" /\ Len(codes) = 2 /\ Len(rows) = 2
    /\ {<<1, "feat">>, <<1, "val">>} \subseteq caught
    /\ ~IsNaN(rows[2].price) /\ rows[2].metric_name = "pe_ttm"

\* C8: without the credential nothing is done: no pull, no row, no file;
\* the run can only exit, with status 1.
C8_NoCredentialNoWork ==
    token = "None" =>
        /\ pc \in {"start", "exited"}
        /\ pc = "exited" => exit_status = 1
        /\ f_pc = "idle" /\ f_calls = <<>> /\ sym_pulls = 0
        /\ rows = <<>> /\ ~written /\ ci = 0

\* C8 witness: the run has exited with status 1.
C8_Witness == token = "None" /\ pc = "exited" /\ exit_status = 1

NaPaths == {"no_daily_basic", "no_pe_pb", "ak_err", "ak_empty", "val_err"}

\* C12: in every row, metric_name "na" comes with no percentile and no
\* metric value, and with a note naming one of the ways above; a row with
\* such a note has metric_name "na".
C12_NaImpliesAbsent ==
    \A k \in 1..Len(rows) :
        /\ rows[k].metric_name = "na" =>
              /\ IsNaN(rows[k].percentile)
              /\ IsNaN(rows[k].latest_metric)
              /\ \E w \in NaPaths : HasFrag(rows[k].note, w)
        /\ (\E w \in NaPaths : HasFrag(rows[k].note, w)) => rows[k].metric_name = "na"

\* C12 witness: a row whose valuation raised after a row with a percentile,
\* both in the output.
C12_Witness ==
    /\ pc = "done" /\ Len(rows) = 2
    /\ rows[1].metric_name = "pe_ttm" /\ ~IsNaN(rows[1].percentile)
    /\ rows[2].metric_name = "na" /\ HasFrag(rows[2].note, "val_err")
    /\ IsNaN(rows[2].percentile) /\ IsNaN(rows[2].latest_metric)

\* The four ways of C12 other than the caught exception are reached too.
C12_WitnessNoMetric ==
    /\ Len(rows) = 2
    /\ HasFrag(rows[1].note, "no_daily_basic") \/ HasFrag(rows[1].note, "no_pe_pb")
    /\ HasFrag(rows[2].note, "ak_err") \/ HasFrag(rows[2].note, "ak_empty")

(***************************************************************************)
(* SpecFeatures: the computation of get_ma_and_vol (lines 59-72) run alone *)
(* on price frames around the window lengths, with and without missing     *)
(* close values.                                                           *)
(***************************************************************************)
FrameLengths == {1, 19, 20, 119, 120, 121, 150, 199, 200, 201, 250}

\* No date missing, or one: the last, the first, or one inside the trailing
\* 120 or the trailing 200 rows.
HoleSets(n) ==
    {{}} \cup {{k} \cap (1..n) : k \in {n, 1, n - 60, n - 150}}

FeatureFrames ==
    UNION {{PriceFrame(n, shape, holes, "flat", {}, cols, desc) :
               holes \in HoleSets(n),
               shape \in {"up", "down", "flat"},
               cols \in {{"close", "vol"}, {"close", "amount"}},
               desc \in BOOLEAN} : n \in FrameLengths}

InitFeatures ==
    /\ ClockAbsent /\ MainAbsent /\ FetchAbsent
    /\ t_in \in FeatureFrames
    /\ t_out = [done |-> FALSE]

Extract ==
    /\ pc = "test" /\ ~t_out.done
    /\ t_out' = [done |-> TRUE, res |-> Features(t_in, <<Frag("end", 20240229, "")>>)]
    /\ UNCHANGED <<clockvars, fvars, mainvars, featvars, sym_pulls, t_in>>

SpecFeatures == InitFeatures /\ [][Extract]_vars

\* The valid (non-missing) close values of the frame, oldest first.
ValidCloses(df) == dropna(CloseSeries(sort_values(df)))

\* C10 (the claim as made): the long moving average is chosen by the number
\* of valid close values: 200 or more, the mean of the trailing 200 and no
\* fallback noted; 120 to 199, the mean of the trailing 120 and the fallback
\* noted; fewer than 120, missing and no fallback noted.
C10_Original ==
    (t_out.done /\ ~t_out.res.raised) =>
        LET valid == ValidCloses(t_in)
            nv == Len(valid)
            r == t_out.res
        IN  /\ nv >= 200 =>
                  (r.ma200 = RollingMeanLast(valid, 200) /\ ~HasFrag(r.note, "use_ma120"))
            /\ (nv >= 120 /\ nv < 200) =>
                  (r.ma200 = RollingMeanLast(valid, 120) /\ HasFrag(r.note, "use_ma120"))
            /\ nv < 120 => (IsNaN(r.ma200) /\ ~HasFrag(r.note, "use_ma120"))

\* Without a missing close value the rule of C10 is the code's.
C10_WithoutMissingValues ==
    (t_out.done /\ t_in.holes = {}) => C10_Original

(***************************************************************************)
(* SpecValuation: stock_percentile and index_percentile run alone on every *)
(* result of their fetch: an error, nothing, or a history of up to MaxHist *)
(* rows whose pe and pb are missing, 1 or 2, sent oldest- or newest-first; *)
(* the benchmark branch with every outcome of the secondary provider.      *)
(***************************************************************************)
Histories(n) == [1..n -> {NaN, Num(1), Num(2)}]

ValFrames ==
    UNION {{[ValFrame(pe, pb, {"pe_ttm", "pb"}) EXCEPT !.desc = d] :
               pe \in Histories(n), pb \in Histories(n), d \in BOOLEAN} :
           n \in 1..MaxHist}

FetchResults ==
    {[pc |-> "ret", exc |-> NoErr, df |-> df, ed |-> 20240229] :
        df \in ValFrames \cup {NoFrame}}
    \cup {[pc |-> "raise", exc |-> "timeout", df |-> NoFrame, ed |-> 0]}

InitValuation ==
    /\ ClockAbsent /\ MainAbsent /\ FetchAbsent
    /\ \E fr \in FetchResults :
          \/ t_in = [branch |-> "stock", fetch |-> fr,
                     ak |-> [raised |-> FALSE, err |-> NoErr, df |-> NoFrame]]
          \/ \E out \in AkOutcomes : t_in = [branch |-> "index", fetch |-> fr, ak |-> out]
    /\ t_out = [done |-> FALSE]

Resolve ==
    /\ pc = "test" /\ ~t_out.done
    /\ t_out' = [done |-> TRUE,
                 res |-> IF t_in.branch = "stock" THEN stock_percentile(t_in.fetch)
                         ELSE index_percentile(t_in.fetch, "000300.SH", t_in.ak)]
    /\ UNCHANGED <<clockvars, fvars, mainvars, featvars, sym_pulls, t_in>>

SpecValuation == InitValuation /\ [][Resolve]_vars

\* A history (values by trading date, oldest first) has a valid observation;
\* its latest valid observation.
HasValid(h) == \E i \in DOMAIN h : h[i].den # 0
LatestOf(h) ==
    h[CHOOSE i \in DOMAIN h :
         h[i].den # 0 /\ \A j \in DOMAIN h : j > i => h[j].den = 0]

\* p is a number of tenths nearest to 100 * k / n, for k the valid entries
\* of h strictly below v and n the valid entries of h.
ValidIn(h) == {i \in DOMAIN h : h[i].den # 0}
BelowIn(h, v) == {i \in ValidIn(h) : h[i].num * v.den < v.num * h[i].den}
Abs(x) == IF x < 0 THEN -x ELSE x
IsTenths(p) == p.den # 0 /\ (10 * p.num) % p.den = 0
IsRankOf(p, h, v) ==
    /\ IsTenths(p)
    /\ LET n == Cardinality(ValidIn(h))
           k == Cardinality(BelowIn(h, v))
           t == (10 * p.num) \div p.den
       IN  2 * Abs(t * n - 1000 * k) <= n

\* The history a resolver's result rests on: the primary provider's when it
\* has a valid pe or pb observation, else (benchmark branch) the secondary
\* provider's table, a column it lacks counting as without observations.
PrimaryUsable(x) ==
    /\ x.fetch.pc = "ret" /\ ~IsEmpty(x.fetch.df)
    /\ HasValid(x.fetch.df.pe) \/ HasValid(x.fetch.df.pb)
SecondaryRead(x) ==
    x.branch = "index" /\ ~PrimaryUsable(x) /\ ~x.ak.raised /\ ~IsEmpty(x.ak.df)
RetrievedPe(x) ==
    IF PrimaryUsable(x) THEN x.fetch.df.pe
    ELSE IF SecondaryRead(x) /\ "pe" \in x.ak.df.cols THEN x.ak.df.pe ELSE <<>>
RetrievedPb(x) ==
    IF PrimaryUsable(x) THEN x.fetch.df.pb
    ELSE IF SecondaryRead(x) /\ "pb" \in x.ak.df.cols THEN x.ak.df.pb ELSE <<>>

PrimaryWithoutObservation ==
    /\ f_pc = "ret"
    /\ \/ IsEmpty(f_df) /\ Len(f_calls) = f_max_back + 1
       \/ /\ ~IsEmpty(f_df) /\ {"pe_ttm", "pb"} \subseteq f_df.cols
          /\ ~HasValid(f_df.pe) /\ ~HasValid(f_df.pb)

SameNumber(a, b) == a.den # 0 /\ b.den # 0 /\ a.num * b.den = b.num * a.den
FragOf(note, k) == note[CHOOSE i \in 1..Len(note) : note[i].k = k]
\* The benchmark identifiers of the configurations without their suffix.
BareId(index_code) == IF index_code = "000300.SH" THEN "000300" ELSE "?"

\* The row r is what the secondary provider's outcome out gives for the
\* benchmark index_code: P/E before P/B, the note naming the bare key.
SecondaryRow(r, index_code, out) ==
    LET has == ~out.raised /\ ~IsEmpty(out.df)
        pe == IF has /\ "pe" \in out.df.cols THEN out.df.pe ELSE <<>>
        pb == IF has /\ "pb" \in out.df.cols THEN out.df.pb ELSE <<>>
    IN  /\ HasValid(pe) =>
              r.metric_name = "pe_ttm" /\ SameNumber(r.latest_metric, LatestOf(pe))
        /\ (~HasValid(pe) /\ HasValid(pb)) =>
              r.metric_name = "pb" /\ SameNumber(r.latest_metric, LatestOf(pb))
        /\ (~HasValid(pe) /\ ~HasValid(pb)) =>
              /\ r.metric_name = "na"
              /\ HasFrag(r.note, IF out.raised THEN "ak_err" ELSE "ak_empty")
        /\ r.metric_name # "na" =>
              /\ HasFrag(r.note, "akshare_csindex")
              /\ FragOf(r.note, "akshare_csindex").e = BareId(index_code)
        /\ r.metric_name = "na" =>
              /\ HasFrag(r.note, "no_index_basic")
              /\ FragOf(r.note, "no_index_basic").e = index_code

FromSecondary(r) == HasFrag(r.note, "akshare_csindex") \/ HasFrag(r.note, "no_index_basic")

\* C13: the secondary provider is called next exactly when the benchmark
\* fetch of a mapped symbol returned without a valid P/E or P/B observation
\* (nothing on every candidate date, or rows with both columns missing);
\* when the primary has an observation, or its fetch raised, the row is
\* appended without it; the row it gives carries the benchmark identifier
\* without its suffix and takes P/E before P/B.
C13_SecondaryExactlyWhenPrimaryBlank ==
    [][/\ (pc # "ak" /\ pc' = "ak") =>
              /\ pc = "val_index" /\ IsMapped(umap, codes[ci])
              /\ PrimaryWithoutObservation
       /\ (pc = "val_index" /\ pc' # pc /\ PrimaryWithoutObservation) => pc' = "ak"
       /\ (pc # "ak" /\ rows' # rows) => ~FromSecondary(rows'[Len(rows')])
       /\ (pc = "ak" /\ pc' # pc) =>
              /\ Len(rows') = Len(rows) + 1
              /\ \E out \in AkOutcomes :
                    SecondaryRow(rows'[Len(rows')], umap[codes[ci]], out)]_vars

\* C13 witness: after a benchmark fetch without observations the secondary
\* provider's table, P/E column blank, gave the row its P/B.
C13_Witness ==
    /\ Len(rows) = 1 /\ rows[1].code = Etf
    /\ HasFrag(rows[1].note, "akshare_csindex")
    /\ FragOf(rows[1].note, "akshare_csindex").e = "000300"
    /\ rows[1].metric_name = "pb" /\ SameNumber(rows[1].latest_metric, Num(1))

(***************************************************************************)
(* Claims about the query end date of a run, under Spec.                   *)
(***************************************************************************)
\* C14 (the claim as made): every fetch of a run starts its lookback from
\* the same resolved end date: from one fetch to the next the start date
\* does not change, whatever the clock did in between.
C14_Original ==
    [][(f_base # 0 /\ f_base' # 0) => f_base' = f_base]_vars

\* C14, the part that holds: a run started in the last hour of 2023-12-31
\* resolves 2023-12-31 for every fetch, before and after midnight.
C14_MidnightKeepsDate ==
    now_date \in {20231231, 20240101} => f_base \in {0, 20231231}

\* The clock passed midnight during a fetch that started from 2023-12-31.
C14_MidnightWitness == now_date = 20240101 /\ f_base = 20231231 /\ Len(rows) = 1

(***************************************************************************)
(* SpecClock: cn_end_date run alone at every hour of days after the end of *)
(* a month, of a year, of February in leap and common years, and of days   *)
(* inside a month.                                                         *)
(***************************************************************************)
\* The calendar date before each date of the model, from the calendar.
DayBefore ==
    (20240301 :> 20240229) @@ (20230301 :> 20230228) @@ (21000301 :> 21000228) @@
    (20000301 :> 20000229) @@ (20240101 :> 20231231) @@ (20240501 :> 20240430) @@
    (20240801 :> 20240731) @@ (20240102 :> 20240101) @@ (20241231 :> 20241230) @@
    (20240315 :> 20240314)

InitClock ==
    /\ now_date \in DOMAIN DayBefore
    /\ now_hour \in 0..23
    /\ ticks = 0
    /\ MainAbsent /\ FetchAbsent
    /\ t_in = 0
    /\ t_out = [done |-> FALSE]

ResolveDate ==
    /\ pc = "test" /\ ~t_out.done
    /\ t_out' = [done |-> TRUE, res |-> cn_end_date(now_date, now_hour)]
    /\ UNCHANGED <<clockvars, fvars, mainvars, featvars, sym_pulls, t_in>>

SpecClock == InitClock /\ [][ResolveDate]_vars

\* C15: the resolver returns the calendar day before now's date when now's
\* hour is below 17, and now's date from hour 17 on.
C15_CutoffRule ==
    t_out.done =>
        /\ now_hour < 17 => t_out.res = DayBefore[now_date]
        /\ now_hour >= 17 => t_out.res = now_date

\* C15 witness: at 16 h on the first day of 2024 the date is 2023-12-31.
C15_Witness ==
    t_out.done /\ now_date = 20240101 /\ now_hour = 16 /\ t_out.res = 20231231

\* At exactly 17 h the date is now's: the day after a leap day stays.
C15_WitnessAtCutoff ==
    t_out.done /\ now_date = 20240301 /\ now_hour = 17 /\ t_out.res = 20240301

(***************************************************************************)
(* SpecRank: pct_rank run alone on every series of up to MaxHist entries,  *)
(* each missing (or not a number), 1, 2 or 3, and every value among        *)
(* missing, 0, 1, 2, 3, 4.                                                 *)
(***************************************************************************)
RankSeries == UNION {[1..n -> {NaN, Num(1), Num(2), Num(3)}] : n \in 0..MaxHist}
RankValues == {NaN} \cup {Num(v) : v \in 0..4}

InitRank ==
    /\ ClockAbsent /\ MainAbsent /\ FetchAbsent
    /\ t_in \in [series : RankSeries, value : RankValues]
    /\ t_out = [done |-> FALSE]

Rank ==
    /\ pc = "test" /\ ~t_out.done
    /\ t_out' = [done |-> TRUE, res |-> pct_rank(t_in.series, t_in.value)]
    /\ UNCHANGED <<clockvars, fvars, mainvars, featvars, sym_pulls, t_in>>

SpecRank == InitRank /\ [][Rank]_vars

\* What C16 says besides the formula: absent on an empty valid history or a
\* missing value; else within [0, 100], 100 above every entry, 0 below
\* every entry.
RankEnds(r, h, v) ==
    /\ (ValidIn(h) = {} \/ IsNaN(v)) => IsNaN(r)
    /\ (ValidIn(h) # {} /\ ~IsNaN(v)) =>
          /\ r.den # 0 /\ r.num >= 0 /\ r.num <= 100 * r.den
          /\ (\A i \in ValidIn(h) : h[i].num * v.den < v.num * h[i].den)
                => r.num = 100 * r.den
          /\ (\A i \in ValidIn(h) : h[i].num * v.den > v.num * h[i].den)
                => r.num = 0

\* C16 (the claim as made): the result is exactly 100 * (valid entries
\* strictly less than value) / (valid entries).
C16_Original ==
    t_out.done =>
        LET h == t_in.series
            v == t_in.value
            r == t_out.res
        IN  /\ RankEnds(r, h, v)
            /\ (ValidIn(h) # {} /\ ~IsNaN(v)) =>
                  r.num * Cardinality(ValidIn(h)) = 100 * Cardinality(BelowIn(h, v)) * r.den

\* C16 as amended: the result is 100 * (valid entries strictly less than
\* value) / (valid entries) rounded to one decimal place; entries equal to
\* the value are not counted.
C16_RankRoundedToTenth ==
    t_out.done =>
        LET h == t_in.series
            v == t_in.value
            r == t_out.res
        IN  /\ RankEnds(r, h, v)
            /\ (ValidIn(h) # {} /\ ~IsNaN(v)) => IsRankOf(r, h, v)

\* C16 witness: 2 in the history 1, 2, 3 ranks 33.3: one entry of three is
\* below it, the equal one is not counted, and 33.33... is rounded.
C16_Witness ==
    /\ t_out.done
    /\ t_in.series = <<Num(1), Num(2), Num(3)>> /\ t_in.value = Num(2)
    /\ t_out.res = Rat(333, 10)

(***************************************************************************)
(* SpecBounded: the runs of main() and the runs of fetch_with_backoff      *)
(* alone (max_back in 0..MaxBack, every pull function over TestOutcomes),  *)
(* the clock standing still.  A provider call completes or raises, so a    *)
(* pull that the fetch loop can make is made: weak fairness of FetchPull.  *)
(***************************************************************************)
ProgramStep ==
    \/ MainExit
    \/ MainBegin
    \/ FetchPull
    \/ StockFetched
    \/ FundFetched
    \/ StockValued
    \/ IndexFetched
    \/ SecondaryCalled

SpecBounded == (Init \/ InitFetch) /\ [][ProgramStep]_vars /\ WF_vars(FetchPull)

\* The pulls of the current fetch that raised.
RaisedCalls == {k \in 1..Len(f_calls) : f_calls[k].res.out = "raise"}
\* The run is over: main() has written its output or exited, or the fetch
\* run alone has returned or raised.
Terminated == pc \in {"done", "exited"} \/ (pc = "test" /\ FetchDone)
\* A step of the program can be taken.
CanProgress == pc = "start" \/ (pc = "test" /\ CanPull) \/ (Running /\ CanStep)

\* The work a run has left, in steps: the candidate dates left in the
\* current fetch, the fetches and calls left for the current symbol (price,
\* fund price, valuation, secondary provider), the symbols left.
FetchLeft == IF f_pc = "loop" THEN f_max_back + 1 - f_d ELSE 0
PhaseCost == DefaultMaxBack + 3
PhasesLeft ==
    CASE pc = "feat_stock" -> 3
      [] pc = "feat_fund" -> 2
      [] pc \in {"val_stock", "val_index"} -> 1
      [] OTHER -> 0
WorkLeft ==
    IF Terminated THEN 0
    ELSE IF pc = "test" THEN FetchLeft
    ELSE IF pc = "start" THEN 2 + Len(codes) * 4 * PhaseCost
    ELSE 1 + (Len(codes) - ci) * 4 * PhaseCost + PhasesLeft * PhaseCost + FetchLeft

\* C17: a fetch makes at most max_back + 1 pulls and has slept once for each
\* pull that raised and for no other; every fetch that is started returns or
\* raises; one symbol makes at most three fetches' worth of pulls; every
\* step of a run lessens the work left, which is never negative, and a run
\* that is not over has a step to take: the batch ends.
C17_BoundedRetryTerminates ==
    /\ [](/\ Len(f_calls) <= f_max_back + 1
          /\ f_slept = Cardinality(RaisedCalls)
          /\ (FetchDone /\ f_pc = "raise") => f_slept >= 1
          /\ sym_pulls <= 3 * (DefaultMaxBack + 1)
          /\ WorkLeft >= 0
          /\ ~Terminated => CanProgress)
    /\ [][WorkLeft' < WorkLeft]_vars
    /\ (f_pc = "loop") ~> FetchDone

\* C17 witness: a fetch run alone with max_back = 3 raised after four pulls
\* of which two raised and two returned nothing: two waits.
C17_Witness ==
    /\ pc = "test" /\ f_pc = "raise" /\ f_max_back = 3
    /\ Len(f_calls) = 4 /\ f_slept = 2

\* A symbol of a full run made twelve pulls: three fetches of four.
C17_WitnessSymbol == pc = "done" /\ Len(rows) = 1 /\ sym_pulls = 12

(***************************************************************************)
(* SpecIsolation: one round of main()'s loop (lines 143-181), for one      *)
(* symbol with given provider responses, computed in two runs that start   *)
(* at the same clock reading and differ in what came before the symbol and *)
(* between its fetches: the hours (0..MaxTicks) the clock has advanced     *)
(* when each of the symbol's fetches is called.                            *)
(***************************************************************************)
\* fetch_with_backoff as a function of the pull function and of the date
\* cn_end_date() gives when it is called: the loop from candidate d on.
RECURSIVE FetchFrom(_, _, _, _, _)
FetchFrom(fn, base, max_back, d, last_err) ==
    IF d > max_back THEN AfterLoop(last_err, base, max_back)
    ELSE IF PullSucceeded(fn[d + 1])
    THEN [pc |-> "ret", exc |-> NoErr, df |-> fn[d + 1].df, ed |-> CandidateDate(base, d)]
    ELSE FetchFrom(fn, base, max_back, d + 1, NextLastErr(last_err, fn[d + 1]))

fetch_with_backoff(fn, base, max_back) == FetchFrom(fn, base, max_back, 0, NoErr)

\* The function and the loop run step by step (FetchPull) end alike: an
\* invariant of SpecFetch and of Spec.
FetchFromAgrees ==
    FetchDone =>
        [pc |-> f_pc, exc |-> f_exc, df |-> f_df, ed |-> f_ed]
            = fetch_with_backoff(f_fn, f_base, f_max_back)

\* get_ma_and_vol, lines 42-72: b1 and b2 are the dates resolved when the
\* stock fetch and the fund fetch are called.
get_ma_and_vol(daily_fn, fund_fn, b1, b2) ==
    LET r1 == fetch_with_backoff(daily_fn, b1, DefaultMaxBack)
        r2 == fetch_with_backoff(fund_fn, b2, DefaultMaxBack)
    IN  IF r1.pc = "raise" THEN Raised(r1.exc)
        ELSE IF ~IsEmpty(r1.df) THEN Features(r1.df, <<Frag("end", r1.ed, "")>>)
        ELSE IF r2.pc = "raise" THEN Raised(r2.exc)
        ELSE IF ~IsEmpty(r2.df) THEN Features(r2.df, <<Frag("fund_end", r2.ed, "")>>)
        ELSE [raised |-> FALSE, price |-> NaN, ma200 |-> NaN, vnow |-> NaN, vma20 |-> NaN,
              note |-> <<Frag("end", r1.ed, ""), Frag("no_daily_data", 0, "")>>]

\* The clock k hours after the reading c.
RECURSIVE ClockAfter(_, _)
ClockAfter(c, k) ==
    IF k = 0 THEN c
    ELSE ClockAfter(IF c[2] = 23 THEN <<NextDay(c[1]), 0>> ELSE <<c[1], c[2] + 1>>, k - 1)

\* lines 143-181 for the symbol code: resp are the responses of its
\* providers, at[i] the hours passed since the run began when its price
\* fetch (1), fund fetch (2) and valuation fetch (3) are called.
SymbolRow(code, map, resp, start, at) ==
    LET base(i) == LET c == ClockAfter(start, at[i]) IN cn_end_date(c[1], c[2])
        m == MainFeatures(get_ma_and_vol(resp.daily, resp.fund, base(1), base(2)))
        fr == fetch_with_backoff(resp.val, base(3), DefaultMaxBack)
        v == IF IsMapped(map, code) THEN index_percentile(fr, map[code], resp.ak)
             ELSE stock_percentile(fr)
    IN  MakeRow(code, MainValuation(v), m.price, m.ma200, m.vnow, m.vma20, m.trend, m.note1)

\* The hours passed at a symbol's three fetches: they do not go back.
FetchHours == {h \in [1..3 -> 0..MaxTicks] : h[1] <= h[2] /\ h[2] <= h[3]}

SymbolInputs ==
    {[code |-> Stock, map |-> [c \in {Etf} |-> "000300.SH"],
      resp |-> [daily |-> d, fund |-> f, val |-> v,
                ak |-> [raised |-> FALSE, err |-> NoErr, df |-> NoFrame]]] :
        d \in RunPulls("daily"), f \in RunPulls("fund_daily"), v \in RunPulls("daily_basic")}
    \cup
    {[code |-> Etf, map |-> [c \in {Etf} |-> "000300.SH"],
      resp |-> [daily |-> d, fund |-> f, val |-> v, ak |-> a]] :
        d \in {At1(UpFrame), AllEmpty, AllRaise}, f \in RunPulls("fund_daily"),
        v \in RunPulls("index_dailybasic"), a \in AkOutcomes}

InitIsolation ==
    /\ ClockAbsent /\ MainAbsent /\ FetchAbsent
    /\ \E x \in SymbolInputs, c \in StartClocks, ha \in FetchHours, hb \in FetchHours :
          t_in = [sym |-> x, start |-> c, hoursA |-> ha, hoursB |-> hb]
    /\ t_out = [done |-> FALSE]

Compare ==
    /\ pc = "test" /\ ~t_out.done
    /\ t_out' = [done |-> TRUE,
                 rowA |-> SymbolRow(t_in.sym.code, t_in.sym.map, t_in.sym.resp,
                                    t_in.start, t_in.hoursA),
                 rowB |-> SymbolRow(t_in.sym.code, t_in.sym.map, t_in.sym.resp,
                                    t_in.start, t_in.hoursB)]
    /\ UNCHANGED <<clockvars, fvars, mainvars, featvars, sym_pulls, t_in>>

SpecIsolation == InitIsolation /\ [][Compare]_vars

\* C18 (the claim as made): the symbol's row is the same in the two runs,
\* the timestamp aside.
C18_Original ==
    t_out.done =>
        [t_out.rowA EXCEPT !.updated_at = 0] = [t_out.rowB EXCEPT !.updated_at = 0]

\* C18, the part that holds: with the same hours at the symbol's fetches
\* that resolve the same dates, the rows agree.
C18_SameDatesSameRow ==
    (t_out.done /\ \A i \in 1..3 :
        LET a == ClockAfter(t_in.start, t_in.hoursA[i])
            b == ClockAfter(t_in.start, t_in.hoursB[i])
        IN  cn_end_date(a[1], a[2]) = cn_end_date(b[1], b[2]))
    => [t_out.rowA EXCEPT !.updated_at = 0] = [t_out.rowB EXCEPT !.updated_at = 0]

(***************************************************************************)
(* Claims about the fund price source, under Spec.                         *)
(***************************************************************************)
\* The latest valid close of a price frame, from its trading dates.
LatestClose(df) ==
    LET ks == (1..df.n) \ df.holes
    IN  IF ks = {} THEN NaN
        ELSE Rat(ShapeAt(df.shape, df.n, CHOOSE k \in ks : \A j \in ks : j <= k), 100)
AllFeaturesAbsent ==
    /\ IsNaN(price') /\ IsNaN(ma200') /\ IsNaN(vnow') /\ IsNaN(vma20')
    /\ trend' = "below"

\* C19: the fund fetch starts only from a stock fetch that returned nothing
\* after pulling every candidate date with an empty result each time; a
\* stock fetch that raised hands its error to main() and one that returned
\* a frame is computed on, neither trying the fund source; a fund frame
\* gives the features and the note fund_end=<its date>; an empty fund fetch
\* leaves every feature absent and the note end=<date>;no_daily_data.
C19_FundAfterEmptyStock ==
    [][/\ (f_kind' = "fund_daily" /\ f_kind # "fund_daily") =>
              /\ pc = "feat_stock" /\ pc' = "feat_fund"
              /\ f_pc = "ret" /\ IsEmpty(f_df)
              /\ Len(f_calls) = DefaultMaxBack + 1
              /\ \A k \in 1..Len(f_calls) : f_calls[k].res.out = "empty"
       /\ (pc = "feat_stock" /\ pc' # pc /\ f_pc = "ret" /\ IsEmpty(f_df)) =>
              pc' = "feat_fund" /\ f_kind' = "fund_daily"
       /\ (pc = "feat_stock" /\ pc' # pc /\ f_pc = "raise") =>
              /\ pc' \in {"val_stock", "val_index"} /\ f_kind' # "fund_daily"
              /\ <<ci, "feat">> \in caught'
              /\ note1' = <<Frag("ma_err", 0, f_exc)>>
              /\ AllFeaturesAbsent
       /\ (pc = "feat_stock" /\ pc' # pc /\ f_pc = "ret" /\ ~IsEmpty(f_df)) =>
              /\ pc' \in {"val_stock", "val_index"} /\ f_kind' # "fund_daily"
              /\ <<ci, "feat">> \notin caught' => note1'[1] = Frag("end", f_ed, "")
       /\ (pc = "feat_fund" /\ pc' # pc /\ f_pc = "ret" /\ ~IsEmpty(f_df)
              /\ <<ci, "feat">> \notin caught') =>
              /\ note1'[1] = Frag("fund_end", f_ed, "")
              /\ ~HasFrag(note1', "end") /\ ~HasFrag(note1', "no_daily_data")
              /\ price' = LatestClose(f_df)
       /\ (pc = "feat_fund" /\ pc' # pc /\ f_pc = "ret" /\ IsEmpty(f_df)) =>
              /\ AllFeaturesAbsent
              /\ Len(note1') = 2
              /\ note1'[1].k = "end" /\ note1'[1].d = g_note[1].d
              /\ note1'[2].k = "no_daily_data"
              /\ caught' = caught]_vars

\* C19 witness: a row whose price comes from the fund source, its note
\* naming the fund date and not the stock date.
C19_Witness ==
    /\ Len(rows) = 1 /\ ~IsNaN(rows[1].price)
    /\ rows[1].note[1].k = "fund_end" /\ rows[1].note[1].d = 20240229

\* A row after both sources returned nothing.
C19_WitnessNoData ==
    /\ Len(rows) = 1 /\ IsNaN(rows[1].price) /\ rows[1].trend = "below"
    /\ rows[1].note[1] = Frag("end", 20240229, "") /\ rows[1].note[2].k = "no_daily_data"

(***************************************************************************)
(* The rows end to end, under Spec.                                        *)
(***************************************************************************)
\* C20: a row says Add only with a percentile below 30, a metric, and a
\* price and a moving average with price >= average; a row without a metric
\* says Hold - no trade whatever its trend; and whenever a row is appended
\* after the valuation step failed or found no metric, it says so too.
C20_AddOnlyWithValuationAndTrend ==
    \A k \in 1..Len(rows) :
        LET r == rows[k]
        IN  /\ r.action \in {HoldNoTrade, HoldWait, Trim, Add}
            /\ r.action = Add =>
                  /\ r.percentile.den # 0 /\ r.percentile.num < 30 * r.percentile.den
                  /\ r.metric_name \in {"pe_ttm", "pb"}
                  /\ r.price.den # 0 /\ r.ma200.den # 0
                  /\ r.price.num * r.ma200.den >= r.ma200.num * r.price.den
                  /\ r.trend = "above"
            /\ (r.metric_name = "na" \/ <<k, "val">> \in caught) => r.action = HoldNoTrade

\* C20 witness: the first row says Add, with percentile 0 and price above
\* its average; the second has its trend above and no metric, and holds.
C20_Witness ==
    /\ Len(rows) = 2
    /\ rows[1].action = Add /\ rows[1].percentile = Rat(0, 10)
    /\ rows[1].trend = "above" /\ rows[1].metric_name = "pe_ttm"
    /\ rows[2].trend = "above" /\ rows[2].metric_name = "na"
    /\ rows[2].action = HoldNoTrade

====
